---- MODULE Spec2Model ----
(***************************************************************************)
(* Model of the subscriber microservice: the config poller                 *)
(* (src/src/main.rs), the WsManager hub actor and the ConfigWs session     *)
(* actors (src/src/websocket.rs), coordinated through the shared           *)
(* Arc<Mutex<Option<Config>>> of AppState (src/src/appstate.rs).           *)
(*                                                                         *)
(* Threads: the poller task and the WsManager actor live on the main       *)
(* runtime, every ConfigWs actor on an HTTP worker.  An actor handles one  *)
(* message at a time; do_send enqueues at the tail of the receiver's       *)
(* mailbox and never blocks.  The steps of different threads interleave.   *)
(***************************************************************************)
EXTENDS Integers, Sequences, FiniteSets

\* ---------------------------------------------------------------- bounds
\* NumSessions: connections accepted in a behaviour.  MaxEvents: events the
\* environment supplies in a behaviour (a connection accepted, a fetch
\* outcome, an inbound frame, the end of an inbound stream).
NumSessions == 2
MaxEvents == 4
MaxHubQueue == 3

\* Session handles, numbered in the order the connections are accepted.
Sessions == 1..NumSessions

\* Config is opaque to the core: two distinguishable values.
Configs == {"green", "red"}

\* ---------------------------------------------------------------- values
\* Option<Config>: None, or Some(c).
None == <<>>
Some(c) == <<c>>

\* serde_json::to_string(config): the JSON text of a Config.
ToJson(c) == [json |-> "config", body |-> c]

\* The fixed text sent when the shared slot is None.
NotAvailable == [json |-> "error", body |-> "Configuration not available."]

\* GenericWsMessage { config }; cycle is the history tag of the poll cycle
\* that issued it (not a field of the struct).
GenericWsMessage(c, n) == [type |-> "GenericWsMessage", config |-> c, cycle |-> n]
Connect(s) == [type |-> "Connect", addr |-> s]
Disconnect(s) == [type |-> "Disconnect", addr |-> s]

\* The inbound frames a client can send: Result<ws::Message, ProtocolError>.
Frames == {"get_config", "text", "close", "ping", "error"}

\* The statements of ConfigWs::started, in program order.  (Swapped: the
\* faulty order, snapshot read before the register request.)
StartedOrderSwapped == <<"snapshot", "connect">>
StartedOrder == <<"connect", "snapshot">>

VARIABLES
    sharedConfig,      \* AppState.config: Option<Config> under the mutex
    poisoned,          \* the mutex is poisoned (a holder panicked)
    pollerPc,          \* "fetch" | "send" | "sleep" | "dead"
    fetched,           \* the poller's local `config`
    cycle,             \* number of the poll cycle in progress
    hubMailbox,        \* WsManager's mailbox
    sessions,          \* WsManager.sessions
    pc,                \* per session: "new" | "started1" | "active" | "stopped" | "crashed"
    mailbox,           \* per session: ConfigWs's mailbox
    sent,              \* per session: the texts written to the client, in order
    nevents,           \* environment events so far
    \* ---- history variables (read by no action guard or effect)
    sharedCycle,       \* the cycle whose Config sharedConfig holds (0: none)
    polled,            \* sequence of [cycle, config] written by the poller
    hubLog,            \* per broadcast the hub handled: its cycle and Config, the handles
                       \* it iterated (live), and who was registered/deregistered/open
    connectHandled,    \* sessions whose Connect the hub has handled
    disconnectHandled, \* sessions whose Disconnect the hub has handled
    snapSeen,          \* per session, at its snapshot read: the cycles already written,
                       \* and whether its Connect was still queued
    crashCause         \* per session: why it crashed ("" if it did not)

vars == <<sharedConfig, poisoned, pollerPc, fetched, cycle, hubMailbox, sessions,
          pc, mailbox, sent, nevents, sharedCycle, polled, hubLog,
          connectHandled, disconnectHandled, snapSeen, crashCause>>

pollerVars == <<pollerPc, fetched, cycle>>
hubHist == <<hubLog, connectHandled, disconnectHandled>>

Init ==
    /\ sharedConfig = None
    /\ poisoned = FALSE
    /\ pollerPc = "fetch"
    /\ fetched = None
    /\ cycle = 1
    /\ hubMailbox = <<>>
    /\ sessions = {}
    /\ pc = [s \in Sessions |-> "new"]
    /\ mailbox = [s \in Sessions |-> <<>>]
    /\ sent = [s \in Sessions |-> <<>>]
    /\ nevents = 0
    /\ sharedCycle = 0
    /\ polled = <<>>
    /\ hubLog = <<>>
    /\ connectHandled = {}
    /\ disconnectHandled = {}
    /\ snapSeen = [s \in Sessions |-> [cycles |-> {}, queued |-> FALSE]]
    /\ crashCause = [s \in Sessions |-> ""]


\* ---------------------------------------------------------------- helpers
\* Addr::do_send: the message goes to the tail of the receiver's mailbox.
\* (EnqueueFront: a faulty mailbox that serves the newest message first.)
EnqueueFront(q, m) == <<m>> \o q
Enqueue(q, m) == Append(q, m)

\* A stopped (or panicked) actor's mailbox is closed: do_send to it fails.
Open(s) == pc[s] \notin {"stopped", "crashed"}

\* The loop `for addr in self.sessions.iter() { addr.do_send(msg.clone()); }`:
\* every handle of the live set gets one copy; a failed do_send is ignored.
\* (Faulty variants: a loop that gives up at the first closed handle, and a
\* loop over every started session instead of the live set.)
DeliverAbortOnClosed(live, m) ==
    IF \E s \in live : ~Open(s)
    THEN mailbox
    ELSE [s \in Sessions |-> IF s \in live THEN Enqueue(mailbox[s], m) ELSE mailbox[s]]
DeliverToAll(live, m) ==
    [s \in Sessions |->
        IF pc[s] \in {"started1", "active"} THEN Enqueue(mailbox[s], m) ELSE mailbox[s]]
Deliver(live, m) ==
    [s \in Sessions |->
        IF s \in live /\ Open(s) THEN Enqueue(mailbox[s], m) ELSE mailbox[s]]

\* The text send_current_config writes for the value it finds under the lock.
\* (CurrentConfigTextFetched: a faulty variant that answers from the poller's
\* last fetch instead of the shared slot.)
CurrentConfigTextFetched ==
    IF fetched = None THEN NotAvailable ELSE ToJson(fetched[1])

CurrentConfigText ==
    IF sharedConfig = None THEN NotAvailable ELSE ToJson(sharedConfig[1])

\* One outbound text of a session, tagged with the send path and the cycle of
\* the Config it carries (history).
Out(text, via, n) == [text |-> text, via |-> via, cycle |-> n]

\* Where a session stands in started().  The k-th handle belongs to the k-th
\* connection config_ws accepts.
AtStmt(s, stmt) ==
    \/ pc[s] = "new" /\ StartedOrder[1] = stmt /\ \A r \in Sessions : r < s => pc[r] /= "new"
    \/ pc[s] = "started1" /\ StartedOrder[2] = stmt
AfterStmt(s) == IF pc[s] = "new" THEN "started1" ELSE "active"

\* The first statement of started() runs when the connection is accepted.
Accepted(s) ==
    IF pc[s] = "new"
    THEN nevents < MaxEvents /\ nevents' = nevents + 1
    ELSE nevents' = nevents

PolledCycles == {polled[i].cycle : i \in 1..Len(polled)}

\* ---------------------------------------------------------------- poller
\* fetch_and_update_config, success: both awaits return Ok, then the lock is
\* taken and the slot overwritten (no suspension point in between).
PollerFetchOk(c) ==
    /\ pollerPc = "fetch"
    /\ nevents < MaxEvents
    /\ nevents' = nevents + 1
    /\ ~poisoned
    /\ sharedConfig' = Some(c)
    /\ sharedCycle' = cycle
    /\ fetched' = Some(c)
    /\ pollerPc' = "send"
    /\ polled' = Append(polled, [cycle |-> cycle, config |-> c])
    /\ UNCHANGED <<poisoned, cycle, hubMailbox, sessions, pc, mailbox, sent,
                   hubHist, snapSeen, crashCause>>

\* fetch_and_update_config, failure: `?` returns the error, main logs it.
\* (PollerFetchErrClears: a faulty variant that resets the slot on failure.)
PollerFetchErrClears ==
    /\ pollerPc = "fetch"
    /\ nevents < MaxEvents
    /\ nevents' = nevents + 1
    /\ pollerPc' = "sleep"
    /\ sharedConfig' = None
    /\ UNCHANGED <<poisoned, fetched, cycle, hubMailbox, sessions, pc, mailbox, sent,
                   sharedCycle, polled, hubHist, snapSeen, crashCause>>
PollerFetchErr ==
    /\ pollerPc = "fetch"
    /\ nevents < MaxEvents
    /\ nevents' = nevents + 1
    /\ pollerPc' = "sleep"
    /\ UNCHANGED <<sharedConfig, poisoned, fetched, cycle, hubMailbox, sessions, pc,
                   mailbox, sent, sharedCycle, polled, hubHist, snapSeen, crashCause>>

\* ws_manager.do_send(GenericWsMessage { config }), then Ok(config).
PollerBroadcast ==
    /\ pollerPc = "send"
    /\ hubMailbox' = Enqueue(hubMailbox, GenericWsMessage(fetched[1], cycle))
    /\ fetched' = None
    /\ pollerPc' = "sleep"
    /\ UNCHANGED <<sharedConfig, poisoned, cycle, sessions, pc, mailbox, sent, nevents,
                   sharedCycle, polled, hubHist, snapSeen, crashCause>>

\* sleep(5 s) is over: the loop starts the next cycle.
PollerWake ==
    /\ pollerPc = "sleep"
    /\ nevents < MaxEvents
    /\ cycle' = cycle + 1
    /\ pollerPc' = "fetch"
    /\ UNCHANGED <<sharedConfig, poisoned, fetched, hubMailbox, sessions, pc, mailbox,
                   sent, nevents, sharedCycle, polled, hubHist, snapSeen, crashCause>>

\* ---------------------------------------------------------------- hub
HubHead(type) == hubMailbox /= <<>> /\ Head(hubMailbox).type = type

\* self.sessions.insert(addr) / self.sessions.remove(&addr) on the HashSet.
\* (Faulty variants: an insert that keeps only the newest handle, a remove
\* that removes nothing.)
InsertReplaces(live, s) == {s}
InsertToggles(live, s) == IF s \in live THEN live \ {s} ELSE live \cup {s}
Insert(live, s) == live \cup {s}

RemoveNothing(live, s) == live
Remove(live, s) == live \ {s}

\* Handler<Connect> for WsManager
HubConnect ==
    /\ HubHead("Connect")
    /\ sessions' = Insert(sessions, Head(hubMailbox).addr)
    /\ connectHandled' = connectHandled \cup {Head(hubMailbox).addr}
    /\ hubMailbox' = Tail(hubMailbox)
    /\ UNCHANGED <<sharedConfig, poisoned, pollerVars, pc, mailbox, sent, nevents,
                   sharedCycle, polled, hubLog, disconnectHandled, snapSeen, crashCause>>

\* Handler<Disconnect> for WsManager
HubDisconnect ==
    /\ HubHead("Disconnect")
    /\ sessions' = Remove(sessions, Head(hubMailbox).addr)
    /\ disconnectHandled' = disconnectHandled \cup {Head(hubMailbox).addr}
    /\ hubMailbox' = Tail(hubMailbox)
    /\ UNCHANGED <<sharedConfig, poisoned, pollerVars, pc, mailbox, sent, nevents,
                   sharedCycle, polled, hubLog, connectHandled, snapSeen, crashCause>>

\* Handler<GenericWsMessage> for WsManager
HubBroadcast ==
    /\ HubHead("GenericWsMessage")
    /\ mailbox' = Deliver(sessions, Head(hubMailbox))
    /\ hubLog' = Append(hubLog, [cycle |-> Head(hubMailbox).cycle,
                                 config |-> Head(hubMailbox).config,
                                 live |-> sessions,
                                 registered |-> connectHandled,
                                 deregistered |-> disconnectHandled,
                                 open |-> {s \in Sessions : Open(s)}])
    /\ hubMailbox' = Tail(hubMailbox)
    /\ UNCHANGED <<sharedConfig, poisoned, pollerVars, sessions, pc, sent, nevents,
                   sharedCycle, polled, connectHandled, disconnectHandled, snapSeen,
                   crashCause>>

\* ---------------------------------------------------------------- session
\* started(), statement `self.ws_manager.do_send(Connect { addr })`.
SessionRegister(s) ==
    /\ AtStmt(s, "connect")
    /\ Accepted(s)
    /\ hubMailbox' = Enqueue(hubMailbox, Connect(s))
    /\ pc' = [pc EXCEPT ![s] = AfterStmt(s)]
    /\ UNCHANGED <<sharedConfig, poisoned, pollerVars, sessions, mailbox, sent,
                   sharedCycle, polled, hubHist, snapSeen, crashCause>>

\* started(), statement `self.send_current_config(ctx)`.
SessionInitialSend(s) ==
    /\ AtStmt(s, "snapshot")
    /\ Accepted(s)
    /\ ~poisoned
    /\ sent' = [sent EXCEPT ![s] = Append(@, Out(CurrentConfigText, "init", sharedCycle))]
    /\ snapSeen' = [snapSeen EXCEPT
           ![s] = [cycles |-> PolledCycles, queued |-> s \notin connectHandled]]
    /\ pc' = [pc EXCEPT ![s] = AfterStmt(s)]
    /\ UNCHANGED <<sharedConfig, poisoned, pollerVars, hubMailbox, sessions, mailbox,
                   sharedCycle, polled, hubHist, crashCause>>

\* StreamHandler::handle: "get_config" re-sends the shared value; any other
\* text, a protocol error, and every other frame kind produce nothing.
\* (SessionFrameEchoes: a faulty variant that answers every text frame.)
SessionFrameEchoes(s, f) ==
    /\ pc[s] = "active"
    /\ nevents < MaxEvents
    /\ nevents' = nevents + 1
    /\ IF f \in {"get_config", "text"}
       THEN /\ ~poisoned
            /\ sent' = [sent EXCEPT
                   ![s] = Append(@, Out(CurrentConfigText, "reply", sharedCycle))]
       ELSE sent' = sent
    /\ UNCHANGED <<sharedConfig, poisoned, pollerVars, hubMailbox, sessions, pc, mailbox,
                   sharedCycle, polled, hubHist, snapSeen, crashCause>>

SessionFrame(s, f) ==
    /\ pc[s] = "active"
    /\ nevents < MaxEvents
    /\ nevents' = nevents + 1
    /\ IF f = "get_config"
       THEN /\ ~poisoned
            /\ sent' = [sent EXCEPT
                   ![s] = Append(@, Out(CurrentConfigText, "reply", sharedCycle))]
       ELSE sent' = sent
    /\ UNCHANGED <<sharedConfig, poisoned, pollerVars, hubMailbox, sessions, pc, mailbox,
                   sharedCycle, polled, hubHist, snapSeen, crashCause>>

\* The message a session handles next: the oldest of its mailbox.
NextMessage(s) == Head(mailbox[s])

\* Handler<GenericWsMessage> for ConfigWs: stores msg.config in the shared
\* slot, then writes its JSON to the client.
SessionRelay(s) ==
    /\ pc[s] = "active"
    /\ mailbox[s] /= <<>>
    /\ ~poisoned
    /\ sharedConfig' = Some(NextMessage(s).config)
    /\ sharedCycle' = NextMessage(s).cycle
    /\ sent' = [sent EXCEPT
           ![s] = Append(@, Out(ToJson(NextMessage(s).config), "relay", NextMessage(s).cycle))]
    /\ mailbox' = [mailbox EXCEPT ![s] = Tail(@)]
    /\ UNCHANGED <<poisoned, pollerVars, hubMailbox, sessions, pc, nevents, polled,
                   hubHist, snapSeen, crashCause>>

\* stopping(): the inbound stream has ended and the context stops the actor;
\* the messages still in its mailbox are dropped with it.
\* (SessionStopSilent: a faulty variant that stops without the Disconnect.)
SessionStopSilent(s) ==
    /\ pc[s] = "active"
    /\ nevents < MaxEvents
    /\ nevents' = nevents + 1
    /\ pc' = [pc EXCEPT ![s] = "stopped"]
    /\ mailbox' = [mailbox EXCEPT ![s] = <<>>]
    /\ UNCHANGED <<sharedConfig, poisoned, pollerVars, hubMailbox, sessions, sent,
                   sharedCycle, polled, hubHist, snapSeen, crashCause>>

SessionStop(s) ==
    /\ pc[s] = "active"
    /\ nevents < MaxEvents
    /\ nevents' = nevents + 1
    /\ hubMailbox' = Enqueue(hubMailbox, Disconnect(s))
    /\ pc' = [pc EXCEPT ![s] = "stopped"]
    /\ mailbox' = [mailbox EXCEPT ![s] = <<>>]
    /\ UNCHANGED <<sharedConfig, poisoned, pollerVars, sessions, sent,
                   sharedCycle, polled, hubHist, snapSeen, crashCause>>

\* ---------------------------------------------------------------- specification
Next ==
    \/ \E c \in Configs : PollerFetchOk(c)
    \/ PollerFetchErr
    \/ PollerBroadcast
    \/ PollerWake
    \/ HubConnect
    \/ HubDisconnect
    \/ HubBroadcast
    \/ \E s \in Sessions : SessionRegister(s)
    \/ \E s \in Sessions : SessionInitialSend(s)
    \/ \E s \in Sessions, f \in Frames : SessionFrame(s, f)
    \/ \E s \in Sessions : SessionRelay(s)
    \/ \E s \in Sessions : SessionStop(s)

Spec == Init /\ [][Next]_vars

\* The runtime keeps running what is runnable: an actor with a message in
\* its mailbox handles it, a started() that has begun runs to its end, and
\* the poller's synchronous tail (write, then do_send) completes.
\* Connections, fetch outcomes, frames and stream ends are the environment's
\* and carry no fairness.
StartedSecond(s) == pc[s] = "started1" /\ (SessionRegister(s) \/ SessionInitialSend(s))

Internal ==
    \/ HubConnect
    \/ HubDisconnect
    \/ HubBroadcast
    \/ PollerBroadcast
    \/ \E s \in Sessions : StartedSecond(s) \/ SessionRelay(s)

FairSpec == Spec /\ WF_vars(Internal)

\* ---------------------------------------------------------------- serialization failure
\* serde_json::to_string returning Err: `.expect("Failed to serialize config")`
\* panics.  In both send paths the MutexGuard is still alive at that point, so
\* the panic poisons the mutex; every later `lock().unwrap()` panics in turn.
\* A panicking actor is dropped without stopping() being run.
Crash(s, cause) ==
    /\ pc' = [pc EXCEPT ![s] = "crashed"]
    /\ mailbox' = [mailbox EXCEPT ![s] = <<>>]
    /\ crashCause' = [crashCause EXCEPT ![s] = cause]

\* send_current_config (from started() or on "get_config"): to_string fails.
SerializeFailSend(s) ==
    /\ ~poisoned
    /\ sharedConfig /= None
    /\ \/ AtStmt(s, "snapshot") /\ Accepted(s)
       \/ pc[s] = "active" /\ nevents < MaxEvents /\ nevents' = nevents + 1
    /\ poisoned' = TRUE
    /\ Crash(s, "serialize")
    /\ UNCHANGED <<sharedConfig, pollerVars, hubMailbox, sessions, sent, sharedCycle,
                   polled, hubHist, snapSeen>>

\* Handler<GenericWsMessage> for ConfigWs: the slot is already overwritten
\* when to_string fails.
SerializeFailRelay(s) ==
    /\ ~poisoned
    /\ pc[s] = "active"
    /\ mailbox[s] /= <<>>
    /\ sharedConfig' = Some(NextMessage(s).config)
    /\ sharedCycle' = NextMessage(s).cycle
    /\ poisoned' = TRUE
    /\ Crash(s, "serialize")
    /\ UNCHANGED <<pollerVars, hubMailbox, sessions, sent, nevents, polled, hubHist,
                   snapSeen>>

\* A session reaches `self.config.lock().unwrap()` with the mutex poisoned.
LockPoisonedSession(s) ==
    /\ poisoned
    /\ \/ AtStmt(s, "snapshot") /\ Accepted(s)
       \/ pc[s] = "active" /\ nevents < MaxEvents /\ nevents' = nevents + 1
       \/ pc[s] = "active" /\ mailbox[s] /= <<>> /\ nevents' = nevents
    /\ Crash(s, "poisoned")
    /\ UNCHANGED <<sharedConfig, poisoned, pollerVars, hubMailbox, sessions, sent,
                   sharedCycle, polled, hubHist, snapSeen>>

\* The poller's fetch succeeds and `app_state.config.lock().unwrap()` panics:
\* the spawned task ends, no further cycle runs.
LockPoisonedPoller ==
    /\ poisoned
    /\ pollerPc = "fetch"
    /\ nevents < MaxEvents
    /\ nevents' = nevents + 1
    /\ pollerPc' = "dead"
    /\ UNCHANGED <<sharedConfig, poisoned, fetched, cycle, hubMailbox, sessions, pc,
                   mailbox, sent, sharedCycle, polled, hubHist, snapSeen, crashCause>>

NextSer ==
    \/ Next
    \/ \E s \in Sessions : SerializeFailSend(s)
    \/ \E s \in Sessions : SerializeFailRelay(s)
    \/ \E s \in Sessions : LockPoisonedSession(s)
    \/ LockPoisonedPoller

\* Spec plus the failure outcome of serde_json::to_string.
SpecSer == Init /\ [][NextSer]_vars

\* ---------------------------------------------------------------- claims
Cycles == 1..MaxEvents
Stopped(s) == pc[s] \in {"stopped", "crashed"}

\* The cycles of the broadcasts session s has relayed to its client, in order.
RECURSIVE RelayCycles(_)
RelayCycles(q) ==
    IF q = <<>> THEN <<>>
    ELSE IF Head(q).via = "relay" THEN <<Head(q).cycle>> \o RelayCycles(Tail(q))
    ELSE RelayCycles(Tail(q))

Range(q) == {q[i] : i \in 1..Len(q)}
Relayed(s) == Range(RelayCycles(sent[s]))

\* The text a session's first send must carry according to the poller's writes.
LastPolledText ==
    IF polled = <<>> THEN NotAvailable ELSE ToJson(polled[Len(polled)].config)

\* C1 (P1 initial sync): the first message a session sends to its client is
\* the Config of the most recent successful poller cycle at the moment of the
\* snapshot read, or the "not available" marker when no cycle has succeeded.
\* Stated for snapshot reads made while no cycle is between its write and its
\* broadcast, where "most recent completed cycle" has one reading only.
C1_InitialSync ==
    [][\A s \in Sessions :
          (sent[s] = <<>> /\ sent'[s] /= <<>> /\ pollerPc /= "send")
              => sent'[s][1].text = LastPolledText]_vars

\* C6 (single writer): the value of SharedConfig changes only in the poller's
\* successful cycle; no session step changes it.
C6_SingleWriter ==
    [][sharedConfig' /= sharedConfig => (pollerPc = "fetch" /\ pollerPc' = "send")]_vars

Owed(s) == {hubLog[i].cycle : i \in {j \in 1..Len(hubLog) : s \in hubLog[j].registered}}

\* C2 (P2 broadcast completeness): a session whose Connect the hub handled
\* before it handled the broadcast of cycle n, and which does not stop,
\* eventually relays that broadcast to its client.  Owed(s) only grows and
\* "stopped or relayed" is stable, so the recurrence of the state in which
\* nothing owed is outstanding gives, for every s and n,
\* (n \in Owed(s)) ~> (Stopped(s) \/ n \in Relayed(s)).
C2_BroadcastCompleteness ==
    []<>(\A s \in Sessions, n \in Cycles :
            n \in Owed(s) => (Stopped(s) \/ n \in Relayed(s)))

\* ... a running session that has relayed a broadcast owed to it.
C2_Witness ==
    \E s \in Sessions, n \in Cycles : n \in Owed(s) /\ n \in Relayed(s) /\ ~Stopped(s)

\* Session s has read its snapshot and the poller wrote cycle n after that.
WrittenAfterSnapshot(s, n) ==
    sent[s] /= <<>> /\ n \in PolledCycles /\ n \notin snapSeen[s].cycles

C4_NoStaleLeak ==
    [][\A s \in disconnectHandled :
          /\ sent'[s] = sent[s]
          /\ mailbox'[s] = mailbox[s]
          /\ Len(hubLog') > Len(hubLog) => s \notin hubLog'[Len(hubLog')].live]_vars

\* ... a broadcast handled after a Disconnect, with other handles still live.
C4_Witness ==
    \E i \in 1..Len(hubLog) :
        /\ hubLog[i].deregistered /= {}
        /\ hubLog[i].live /= {}

\* C5 (P3 isolation): a broadcast the hub handles reaches the mailbox of
\* every open handle of the live set whatever the state of the other handles
\* (stopped, or not yet reading), and the hub finishes the broadcast in that
\* one step, leaving the rest of its mailbox to be handled.
C5_Isolation ==
    [][(HubHead("GenericWsMessage") /\ hubLog' /= hubLog)
          => /\ \A s \in sessions :
                    Open(s) => mailbox'[s] = Append(mailbox[s], Head(hubMailbox))
             /\ hubMailbox' = Tail(hubMailbox)
             /\ sessions' = sessions]_vars

\* ... a broadcast over a live set holding a stopped session's handle and an
\* open one, which the open one's session has relayed.
C5_Witness ==
    \E i \in 1..Len(hubLog) : \E s, r \in hubLog[i].live :
        /\ s \notin hubLog[i].open
        /\ r \in hubLog[i].open
        /\ hubLog[i].cycle \in Relayed(r)

RECURSIVE IsSubseq(_, _)
IsSubseq(a, b) ==
    IF a = <<>> THEN TRUE
    ELSE IF b = <<>> THEN FALSE
    ELSE IF Head(a) = Head(b) THEN IsSubseq(Tail(a), Tail(b))
    ELSE IsSubseq(a, Tail(b))

HubCycles == [i \in 1..Len(hubLog) |-> hubLog[i].cycle]
PolledSeq == [i \in 1..Len(polled) |-> polled[i].cycle]

\* C7 (per-session broadcast order): what a session relays is a subsequence,
\* in order, of the broadcasts the hub issued, which the hub issued in the
\* order the poller's successful fetches completed.
C7_BroadcastOrder ==
    /\ IsSubseq(HubCycles, PolledSeq)
    /\ \A s \in Sessions : IsSubseq(RelayCycles(sent[s]), HubCycles)

\* ... a session that has relayed two broadcasts.
C7_Witness ==
    \E s \in Sessions : Len(RelayCycles(sent[s])) >= 2

\* Copies of the broadcast of cycle n that session s holds or has relayed.
RECURSIVE Count(_, _)
Count(q, n) ==
    IF q = <<>> THEN 0
    ELSE (IF Head(q).cycle = n THEN 1 ELSE 0) + Count(Tail(q), n)

Copies(s, n) == Count(mailbox[s], n) + Count(SelectSeq(sent[s], LAMBDA o : o.via = "relay"), n)

\* C8 (broadcast snapshot, once each): a broadcast goes to exactly the
\* handles in the live set when the hub handles it, once per handle; a handle
\* whose Connect is handled later gets nothing from it.
C8_SnapshotOnceEach ==
    \A i \in 1..Len(hubLog) : \A s \in Sessions :
        /\ Copies(s, hubLog[i].cycle) <= 1
        /\ (s \in hubLog[i].live /\ s \in hubLog[i].open /\ ~Stopped(s))
               => Copies(s, hubLog[i].cycle) = 1
        /\ s \notin hubLog[i].live => Copies(s, hubLog[i].cycle) = 0
        /\ s \notin hubLog[i].registered => s \notin hubLog[i].live

\* ... a broadcast relayed by a live session while another session's Connect
\* was handled only after it.
C8_Witness ==
    \E i \in 1..Len(hubLog) : \E s, r \in Sessions :
        /\ r \in hubLog[i].live
        /\ hubLog[i].cycle \in Relayed(r)
        /\ s \notin hubLog[i].registered
        /\ s \in sessions

\* C9 (failed fetch is a skipped cycle): the step in which a fetch fails
\* leaves SharedConfig and the hub's mailbox as they were and puts the poller
\* to sleep, from where it starts the next cycle; the poller never ends.
C9_FailedFetchSkips ==
    [][/\ (pollerPc = "fetch" /\ pollerPc' \notin {"fetch", "send"})
            => /\ pollerPc' = "sleep"
               /\ sharedConfig' = sharedConfig
               /\ hubMailbox' = hubMailbox
               /\ mailbox' = mailbox
               /\ cycle' = cycle
       /\ (pollerPc = "sleep" /\ pollerPc' /= "sleep")
            => (pollerPc' = "fetch" /\ cycle' = cycle + 1)
       /\ pollerPc' /= "dead"]_vars

\* ... two failed cycles in a row after a successful one, and the next cycle
\* has started.
C9_Witness ==
    /\ pollerPc = "fetch"
    /\ cycle >= 3
    /\ sharedConfig /= None
    /\ cycle - 1 \notin PolledCycles
    /\ cycle - 2 \notin PolledCycles

\* ---------------------------------------------------------------- the registry alone
\* Handler<Connect> and Handler<Disconnect> applied to arbitrary requests: the
\* hub starts with an empty HashSet and a mailbox holding any sequence of up
\* to MaxHubQueue Connect/Disconnect messages, for any handles, repeated or
\* never registered.  nevents counts the messages put into the mailbox.
HubRequests == {Connect(s) : s \in Sessions} \cup {Disconnect(s) : s \in Sessions}

InitHub ==
    /\ hubMailbox \in UNION {[1..n -> HubRequests] : n \in 0..MaxHubQueue}
    /\ nevents = Len(hubMailbox)
    /\ sharedConfig = None
    /\ poisoned = FALSE
    /\ pollerPc = "fetch"
    /\ fetched = None
    /\ cycle = 1
    /\ sessions = {}
    /\ pc = [s \in Sessions |-> "new"]
    /\ mailbox = [s \in Sessions |-> <<>>]
    /\ sent = [s \in Sessions |-> <<>>]
    /\ sharedCycle = 0
    /\ polled = <<>>
    /\ hubLog = <<>>
    /\ connectHandled = {}
    /\ disconnectHandled = {}
    /\ snapSeen = [s \in Sessions |-> [cycles |-> {}, queued |-> FALSE]]
    /\ crashCause = [s \in Sessions |-> ""]

NextHub == HubConnect \/ HubDisconnect

SpecHub == InitHub /\ [][NextHub]_vars

\* C11 (P4, idempotent membership): handling Connect(h) leaves the live set
\* equal to the old one plus h, so a Connect for a handle already present
\* changes neither the set nor its size; handling Disconnect(h) for an absent
\* handle leaves the set unchanged; and a queued request is always handled
\* (neither handler has a failing path).
C11_IdempotentMembership ==
    /\ [][/\ HubHead("Connect") =>
              /\ sessions' = sessions \cup {Head(hubMailbox).addr}
              /\ Head(hubMailbox).addr \in sessions =>
                    /\ sessions' = sessions
                    /\ Cardinality(sessions') = Cardinality(sessions)
          /\ (HubHead("Disconnect") /\ Head(hubMailbox).addr \notin sessions) =>
                sessions' = sessions]_vars
    /\ [](hubMailbox /= <<>> => ENABLED NextHub)

\* Disconnect(2) for a handle never registered and Connect(1) twice have all
\* been handled: the live set is {1}.
C11_Witness ==
    /\ nevents = 3
    /\ hubMailbox = <<>>
    /\ connectHandled = {1}
    /\ disconnectHandled = {2}
    /\ sessions = {1}

\* ---------------------------------------------------------------- inbound frames
\* The environment events that leave a mark on the state: connections
\* accepted, fetch outcomes, stream ends, and "get_config" replies.  The
\* rest of nevents is the frames a session handled without doing anything.
RECURSIVE Replies(_)
Replies(q) ==
    IF q = <<>> THEN 0
    ELSE (IF Head(q).via = "reply" THEN 1 ELSE 0) + Replies(Tail(q))

RECURSIVE SumReplies(_)
SumReplies(S) ==
    IF S = {} THEN 0
    ELSE LET s == CHOOSE x \in S : TRUE IN Replies(sent[s]) + SumReplies(S \ {s})

SilentFrames ==
    nevents - Cardinality({s \in Sessions : pc[s] /= "new"})
            - ((cycle - 1) + (IF pollerPc = "fetch" THEN 0 ELSE 1))
            - Cardinality({s \in Sessions : pc[s] = "stopped"})
            - SumReplies(Sessions)

\* C12 (recognized command): a step in which an Active session handles a
\* "get_config" frame appends exactly one message to that session's client,
\* the JSON of SharedConfig as it is at that moment or the not-available
\* marker if it is unset; no other client gets anything; SharedConfig, the
\* live set and the session's state are unchanged; and an Active session can
\* always take that step (the reply is always produced).
C12_RecognizedCommand ==
    /\ [][\A s \in Sessions : SessionFrame(s, "get_config") =>
            /\ Len(sent'[s]) = Len(sent[s]) + 1
            /\ SubSeq(sent'[s], 1, Len(sent[s])) = sent[s]
            /\ sent'[s][Len(sent'[s])].text =
                  (IF sharedConfig = None THEN NotAvailable ELSE ToJson(sharedConfig[1]))
            /\ \A r \in Sessions \ {s} : sent'[r] = sent[r]
            /\ sharedConfig' = sharedConfig
            /\ sessions' = sessions
            /\ pc'[s] = "active"]_vars
    /\ [](\A s \in Sessions :
            (pc[s] = "active" /\ nevents < MaxEvents) => ENABLED SessionFrame(s, "get_config"))

\* A session asked before the first poll cycle and got the marker, asked
\* again after it and got the Config.
C12_Witness ==
    \E s \in Sessions : \E i, j \in 1..Len(sent[s]) :
        /\ i < j
        /\ sent[s][i].via = "reply" /\ sent[s][i].text = NotAvailable
        /\ sent[s][j].via = "reply" /\ sent[s][j].text \in {ToJson(c) : c \in Configs}

\* C13 (unrecognized input is inert): a step in which an Active session
\* handles a text frame other than the command sends nothing to any client,
\* leaves the session Active, and changes neither SharedConfig, the live set
\* nor any mailbox.
C13_UnrecognizedInert ==
    [][\A s \in Sessions : SessionFrame(s, "text") =>
          /\ sent' = sent
          /\ pc' = pc /\ pc[s] = "active"
          /\ sharedConfig' = sharedConfig
          /\ sessions' = sessions
          /\ mailbox' = mailbox
          /\ hubMailbox' = hubMailbox]_vars

\* An Active session with a Config in the slot and a broadcast waiting has
\* handled a frame that left no mark.
C13_Witness ==
    /\ SilentFrames >= 1
    /\ sharedConfig /= None
    /\ \E s \in Sessions : pc[s] = "active" /\ sent[s] /= <<>> /\ s \in sessions

\* ---------------------------------------------------------------- order of the slot's values
\* C14 (SharedConfig follows fetch completion order): once the Config of a
\* cycle is in the slot, no step puts back the Config of an earlier cycle.
\* (Stated on steps that change the value: a step that takes the slot back
\* to an earlier cycle would have to leave its value as it is.)
C14_FetchOrder ==
    [][sharedCycle' < sharedCycle => sharedConfig' = sharedConfig]_vars

\* ---------------------------------------------------------------- registry and liveness
\* A session between its Connect and its stop.
Registering(s) ==
    \/ pc[s] = "active"
    \/ pc[s] = "started1" /\ StartedOrder[1] = "connect"

\* C15 (registry tracks liveness): a session that has left Active has sent
\* its Disconnect (it is queued at the hub or already handled); the hub has
\* handled no session's Disconnect before its Connect; and whenever the
\* hub's mailbox is empty, the live set is exactly the set of sessions that
\* have registered and not stopped.
C15_RegistryTracksLiveness ==
    /\ \A s \in Sessions : pc[s] = "stopped" =>
            (Disconnect(s) \in Range(hubMailbox) \/ s \in disconnectHandled)
    /\ disconnectHandled \subseteq connectHandled
    /\ hubMailbox = <<>> => sessions = {s \in Sessions : Registering(s)}

\* The hub has drained its mailbox after one session stopped and while
\* another is still Active.
C15_Witness ==
    /\ hubMailbox = <<>>
    /\ \E s, r \in Sessions :
          /\ pc[s] = "stopped" /\ s \in disconnectHandled /\ s \notin sessions
          /\ pc[r] = "active" /\ r \in sessions

\* C16 (termination on transport events): a step in which an Active session
\* handles a Close frame or a protocol error takes the session out of Active
\* and sends its Disconnect to the hub.
C16_TerminatesOnTransportEvent ==
    [][\A s \in Sessions :
          (SessionFrame(s, "close") \/ SessionFrame(s, "error")) =>
              /\ pc'[s] /= "active"
              /\ Disconnect(s) \in Range(hubMailbox')]_vars

\* ---------------------------------------------------------------- the lock, statement by statement
\* The same program with each access to the Mutex taken apart into the
\* statements that take the guard, use the value, and drop the guard.  Who
\* holds the guard is read off the program counters: the poller between
\* `lock()` (main.rs:33) and the end of its block (main.rs:35), a session
\* between `lock()` (websocket.rs:117, 166) and the end of the function
\* (websocket.rs:127, 173).
LockPaths == {"init", "reply", "relay"}
LockPc(path) == [init |-> "lock_init", reply |-> "lock_reply", relay |-> "lock_relay"][path]
LockedPcs == {"lock_init", "lock_reply", "lock_relay", "used"}

HoldsLock(s) == pc[s] \in LockedPcs
PollerHoldsLock == pollerPc = "locked"
LockFree == ~PollerHoldsLock /\ \A s \in Sessions : ~HoldsLock(s)

\* fetch_and_update_config: both awaits have returned Ok; `lock().unwrap()`.
PollerLock(c) ==
    /\ pollerPc = "fetch"
    /\ nevents < MaxEvents
    /\ nevents' = nevents + 1
    /\ ~poisoned
    /\ LockFree
    /\ fetched' = Some(c)
    /\ pollerPc' = "locked"
    /\ UNCHANGED <<sharedConfig, poisoned, cycle, hubMailbox, sessions, pc, mailbox, sent,
                   sharedCycle, polled, hubHist, snapSeen, crashCause>>

\* `*config_lock = Some(config.clone())` and the end of the block.
PollerWriteUnlock ==
    /\ pollerPc = "locked"
    /\ sharedConfig' = fetched
    /\ sharedCycle' = cycle
    /\ polled' = Append(polled, [cycle |-> cycle, config |-> fetched[1]])
    /\ pollerPc' = "send"
    /\ UNCHANGED <<poisoned, fetched, cycle, hubMailbox, sessions, pc, mailbox, sent,
                   nevents, hubHist, snapSeen, crashCause>>

\* `self.config.lock().unwrap()` in send_current_config (called from
\* started() or for "get_config") and in Handler<GenericWsMessage>.
SessionLock(s, path) ==
    /\ ~poisoned
    /\ LockFree
    /\ \/ path = "init" /\ pc[s] = "started1" /\ AtStmt(s, "snapshot") /\ nevents' = nevents
       \/ path = "reply" /\ pc[s] = "active" /\ nevents < MaxEvents /\ nevents' = nevents + 1
       \/ path = "relay" /\ pc[s] = "active" /\ mailbox[s] /= <<>> /\ nevents' = nevents
    /\ pc' = [pc EXCEPT ![s] = LockPc(path)]
    /\ UNCHANGED <<sharedConfig, poisoned, pollerVars, hubMailbox, sessions, mailbox, sent,
                   sharedCycle, polled, hubHist, snapSeen, crashCause>>

\* With the guard alive: send_current_config serializes what it finds and
\* writes the text; Handler<GenericWsMessage> overwrites the slot, serializes
\* and writes the text.
SessionUseLocked(s) ==
    /\ \/ /\ pc[s] = "lock_init"
          /\ sent' = [sent EXCEPT ![s] = Append(@, Out(CurrentConfigText, "init", sharedCycle))]
          /\ snapSeen' = [snapSeen EXCEPT
                 ![s] = [cycles |-> PolledCycles, queued |-> s \notin connectHandled]]
          /\ UNCHANGED <<sharedConfig, sharedCycle, mailbox>>
       \/ /\ pc[s] = "lock_reply"
          /\ sent' = [sent EXCEPT ![s] = Append(@, Out(CurrentConfigText, "reply", sharedCycle))]
          /\ UNCHANGED <<sharedConfig, sharedCycle, mailbox, snapSeen>>
       \/ /\ pc[s] = "lock_relay"
          /\ sharedConfig' = Some(NextMessage(s).config)
          /\ sharedCycle' = NextMessage(s).cycle
          /\ sent' = [sent EXCEPT ![s] =
                 Append(@, Out(ToJson(NextMessage(s).config), "relay", NextMessage(s).cycle))]
          /\ mailbox' = [mailbox EXCEPT ![s] = Tail(@)]
          /\ UNCHANGED snapSeen
    /\ pc' = [pc EXCEPT ![s] = "used"]
    /\ UNCHANGED <<poisoned, pollerVars, hubMailbox, sessions, nevents, polled, hubHist,
                   crashCause>>

\* The function returns and the guard is dropped.
SessionUnlock(s) ==
    /\ pc[s] = "used"
    /\ pc' = [pc EXCEPT ![s] = "active"]
    /\ UNCHANGED <<sharedConfig, poisoned, pollerVars, hubMailbox, sessions, mailbox, sent,
                   nevents, sharedCycle, polled, hubHist, snapSeen, crashCause>>

NextLock ==
    \/ \E c \in Configs : PollerLock(c)
    \/ PollerWriteUnlock
    \/ PollerFetchErr
    \/ PollerBroadcast
    \/ PollerWake
    \/ HubConnect
    \/ HubDisconnect
    \/ HubBroadcast
    \/ \E s \in Sessions : SessionRegister(s)
    \/ \E s \in Sessions, path \in LockPaths : SessionLock(s, path)
    \/ \E s \in Sessions : SessionUseLocked(s)
    \/ \E s \in Sessions : SessionUnlock(s)
    \/ \E s \in Sessions, f \in Frames \ {"get_config"} : SessionFrame(s, f)
    \/ \E s \in Sessions : SessionStop(s)

SpecLock == Init /\ [][NextLock]_vars

\* C17 (lock discipline): at most one component holds the lock; the poller
\* writes and releases without sending anything; and a session that holds
\* the lock writes no text to its client before it has released it (it
\* locks, copies, releases, and only then serializes or sends).
C17_LockDiscipline ==
    /\ [](Cardinality({s \in Sessions : HoldsLock(s)}) + (IF PollerHoldsLock THEN 1 ELSE 0) <= 1)
    /\ [][\A s \in Sessions : (HoldsLock(s) /\ HoldsLock(s)') => sent'[s] = sent[s]]_vars
    /\ [][PollerWriteUnlock => hubMailbox' = hubMailbox]_vars

\* ---------------------------------------------------------------- convergence and freshness
\* The poller is idle between cycles and no actor has a message waiting.
Quiescent ==
    /\ pollerPc = "sleep"
    /\ hubMailbox = <<>>
    /\ \A s \in Sessions : mailbox[s] = <<>>

\* The Config written by the last successful poll cycle (unset if none).
LastPolledConfig ==
    IF polled = <<>> THEN None ELSE Some(polled[Len(polled)].config)

\* C18 (quiescent convergence): whenever the poller is idle between cycles
\* and every mailbox is empty, the slot holds the Config of the last
\* successful poll cycle, or is unset if there was none.
C18_QuiescentConvergence ==
    Quiescent => sharedConfig = LastPolledConfig

\* C19 (per-session freshness): the texts a session has written to its
\* client, whatever the send path, carry Configs of non-decreasing cycles.
C19_PerSessionFreshness ==
    \A s \in Sessions : \A i, j \in 1..Len(sent[s]) :
        i < j => sent[s][i].cycle <= sent[s][j].cycle

\* C20 (SharedConfig never becomes unset again): no step takes the slot from
\* a Config back to unset, and once a poll cycle has succeeded no text a
\* session writes is the not-available marker.
C20_NeverUnsetAgain ==
    [][/\ sharedConfig /= None => sharedConfig' /= None
       /\ \A s \in Sessions :
            (polled /= <<>> /\ sent'[s] /= sent[s]) =>
                sent'[s][Len(sent'[s])].text /= NotAvailable]_vars

\* A session got the marker before the first successful cycle and a Config
\* as its latest text, and the slot has outlived a failed fetch.
C20_Witness ==
    /\ sharedConfig /= None
    /\ polled /= <<>>
    /\ pollerPc = "sleep"
    /\ cycle \notin PolledCycles
    /\ \E s \in Sessions :
          /\ Len(sent[s]) >= 2
          /\ sent[s][1].text = NotAvailable
          /\ sent[s][Len(sent[s])].text /= NotAvailable

====
